---- MODULE Spec2Model ----
(***************************************************************************)
(* Model of escursor.ESCursor (src/escursor/escursor.py): a batched        *)
(* from/size pagination cursor over an Elasticsearch index.                *)
(*                                                                         *)
(* The cursor's fields keep the names of the source (total_number,         *)
(* batch_size, offset, inbtach_idx, current_batch_size, hits).  The        *)
(* backend is the collaborator behind es_conn.search: it holds `held`      *)
(* matching documents, document p being the one at position p, and answers *)
(* a request (from, size) with the documents at from .. from+size-1 that   *)
(* it holds.  The index may be mutated between calls and a request may     *)
(* fail with a backend error.                                              *)
(***************************************************************************)
EXTENDS Integers, Sequences, FiniteSets

\* ---------------------------------------------------------------- bounds
MaxHeld == 4        \* most documents the backend ever holds
MaxLimit == 3       \* largest total_number argument the caller passes
MaxBatch == 2       \* largest batch_size argument the caller passes
MaxPassCalls == 5    \* next-item calls the caller makes between two restarts
MaxMutations == 2   \* index mutations per run
MaxErrors == 1      \* backend errors per run

\* ------------------------------------------------------------- encodings
None == -1          \* total_number=None
Absent == -1        \* the body template has no 'size' key
NoDoc == -1         \* the call returned no document
NoReq == -1         \* no windowed request since the last restart
NoAnswer == -1      \* the request failed: it returned no window

Min(a, b) == IF a < b THEN a ELSE b
Max(a, b) == IF a > b THEN a ELSE b

VARIABLES
    \* the caller's arguments
    arg_total_number, arg_batch_size, body_size,
    \* the backend
    held,
    \* the cursor
    phase, total_number, batch_size, offset, inbtach_idx, current_batch_size, hits,
    \* what the caller and the backend observed of the last operation
    lastOp, lastResult, lastDoc, callReqs, callFailed,
    \* the latest windowed request since the last restart and its answer
    reqFrom, reqGot,
    \* the requests of the cursor's life
    countRequests, countSize, actual_total_number,
    \* the current pass: from a restart (or the construction) to the next restart
    passStart, passDocs, passReqs, passWins, passDone, passErr, passMut,
    \* the pass before the current one
    prevDocs, prevReqs, prevOk,
    \* run bounds
    passCalls, mutations, errors

argVars == <<arg_total_number, arg_batch_size, body_size>>
cursorVars == <<phase, total_number, batch_size, offset, inbtach_idx, current_batch_size, hits>>
callVars == <<lastOp, lastResult, lastDoc, callReqs, callFailed>>
reqVars == <<reqFrom, reqGot>>
lifeVars == <<countRequests, countSize, actual_total_number>>
passVars == <<passStart, passDocs, passReqs, passWins, passDone, passErr, passMut>>
prevVars == <<prevDocs, prevReqs, prevOk>>
vars == <<argVars, held, cursorVars, callVars, reqVars, lifeVars, passVars, prevVars, passCalls, mutations, errors>>

\* ---------------------------------------------------------------- backend
\* es_conn.search(body={..., "from": from, "size": size})["hits"]["hits"]
Search(from, size, h) ==
    [i \in 1..Min(size, Max(0, h - from)) |-> from + i - 1]

\* ------------------------------------------------------- get_total_hits
\* the size the count request carries: body['size'] = 0 only if 'size' not in body
CountBodySize(bsize) == IF bsize = Absent THEN 0 ELSE bsize

\* res['hits']['total']
get_total_hits(h) == h

\* mutant: the size is set in the caller's own dict
TemplateAfterCount_NoCopy(bsize) == IF bsize = Absent THEN 0 ELSE bsize

\* body = body.copy(): the 'size' key is added to the copy, the caller's
\* template keeps the size it had (or none)
TemplateAfterCount(bsize) == bsize

\* --------------------------------------------------------------- __init__
\* if total_number is None or total_number > actual_total_number: use the actual
EffectiveTotal(limit, actual) ==
    IF limit = None \/ limit > actual THEN actual ELSE limit

\* mutant: the batch size is taken as configured
CappedBatch_Uncapped(b, total) == b

\* if batch_size < total_number: batch_size else: total_number
CappedBatch(b, total) == IF b < total THEN b ELSE total

\* self.offset = 0; self.inbtach_idx = 0; self.current_batch_size = 0
InitialOffset == 0
InitialIdx == 0
InitialBatchSize == 0

\* ----------------------------------------------------- _fetch_next_batch
\* mutant: the index starts at the second document of the batch
BatchStartIdx_One == InitialIdx + 1

\* self.inbtach_idx = 0
BatchStartIdx == 0

\* mutant: the offset is not advanced
AdvanceOffset_Stuck(off, cbs) == off

\* mutant: the offset is set to the size of the batch
AdvanceOffset_Assign(off, cbs) == cbs

\* mutant: the offset is advanced one too far
AdvanceOffset_Skip(off, cbs) == off + cbs + 1

\* self.offset += self.current_batch_size
AdvanceOffset(off, cbs) == off + cbs

\* mutant: > for >=
PastTotal_Strict(off, total) == off > total

\* mutant: the pass ends one document early
PastTotal_Early(off, total) == off + 1 >= total

\* if self.offset >= self.total_number: raise StopIteration
PastTotal(off, total) == off >= total

\* mutant: a failed search is issued a second time and its answer used
FetchNextBatch_Retry(off, cbs, hs, idx, total, bsz, h, fail) ==
    LET o == AdvanceOffset(off, cbs) IN
    IF PastTotal(o, total)
    THEN [raised |-> "StopIteration", offset |-> o, hits |-> hs,
          cbs |-> cbs, idx |-> idx, reqs |-> <<>>, wins |-> <<>>,
          failed |-> FALSE, doc |-> NoDoc]
    ELSE LET w == Search(o, bsz, h) IN
         [raised |-> "none", offset |-> o, hits |-> w,
          cbs |-> Len(w), idx |-> 0,
          reqs |-> IF fail THEN << <<o, bsz>>, <<o, bsz>> >> ELSE << <<o, bsz>> >>,
          wins |-> <<w>>, failed |-> fail, doc |-> NoDoc]

\* The whole of _fetch_next_batch, from the fields (off, cbs, hs, idx) it
\* starts with, against a backend holding h documents whose answer to this
\* request is an error iff fail.  The result is the fields it leaves, what
\* it raised, and the requests it issued with their answers.
FetchNextBatch(off, cbs, hs, idx, total, bsz, h, fail) ==
    LET o == AdvanceOffset(off, cbs) IN
    IF PastTotal(o, total)
    THEN [raised |-> "StopIteration", offset |-> o, hits |-> hs,
          cbs |-> cbs, idx |-> idx, reqs |-> <<>>, wins |-> <<>>,
          failed |-> FALSE, doc |-> NoDoc]
    ELSE IF fail
    THEN [raised |-> "BackendError", offset |-> o, hits |-> hs,
          cbs |-> cbs, idx |-> idx, reqs |-> << <<o, bsz>> >>, wins |-> <<>>,
          failed |-> TRUE, doc |-> NoDoc]
    ELSE LET w == Search(o, bsz, h) IN
         [raised |-> "none", offset |-> o, hits |-> w,
          cbs |-> Len(w), idx |-> BatchStartIdx, reqs |-> << <<o, bsz>> >>, wins |-> <<w>>,
          failed |-> FALSE, doc |-> NoDoc]

\* --------------------------------------------------------------- __iter__
\* mutant: the offset of the previous pass is kept
IterOutcome_NoReset(off, cbs, hs, idx, total, bsz, h, fail) ==
    FetchNextBatch(off, InitialBatchSize, hs, InitialIdx, total, bsz, h, fail)

\* reset the three paging fields, fetch the first batch, return self
IterOutcome(off, cbs, hs, idx, total, bsz, h, fail) ==
    FetchNextBatch(InitialOffset, InitialBatchSize, hs, InitialIdx, total, bsz, h, fail)

\* --------------------------------------------------------------- __next__
\* if self.inbtach_idx >= self.current_batch_size
NeedsFetch(idx, cbs) == idx >= cbs

\* if self.inbtach_idx == self.current_batch_size: raise StopIteration
EmptyAfterFetch(idx, cbs) == idx = cbs

\* mutant: the index is not moved on
ServeFromBatch_NoAdvance(off, cbs, hs, idx) ==
    [raised |-> "none", offset |-> off, hits |-> hs,
     cbs |-> cbs, idx |-> idx, reqs |-> <<>>, wins |-> <<>>,
     failed |-> FALSE, doc |-> hs[idx + 1]]

\* r = self.hits[self.inbtach_idx]; self.inbtach_idx += 1; return r
ServeFromBatch(off, cbs, hs, idx) ==
    [raised |-> "none", offset |-> off, hits |-> hs,
     cbs |-> cbs, idx |-> idx + 1, reqs |-> <<>>, wins |-> <<>>,
     failed |-> FALSE, doc |-> hs[idx + 1]]

NextOutcome(off, cbs, hs, idx, total, bsz, h, fail) ==
    IF NeedsFetch(idx, cbs)
    THEN LET f == FetchNextBatch(off, cbs, hs, idx, total, bsz, h, fail) IN
         IF f.raised # "none" THEN f
         ELSE IF EmptyAfterFetch(f.idx, f.cbs)
              THEN [f EXCEPT !.raised = "StopIteration"]
              ELSE [ServeFromBatch(f.offset, f.cbs, f.hits, f.idx)
                        EXCEPT !.reqs = f.reqs, !.wins = f.wins]
    ELSE ServeFromBatch(off, cbs, hs, idx)

\* --------------------------------------------- __iter__ and __next__: frame
\* mutant: the restart counts the matches again
TotalAfter_Recount(op, total, limit, h) ==
    IF op = "iter" THEN EffectiveTotal(limit, h) ELSE total

\* neither __iter__ nor __next__ nor _fetch_next_batch assigns
\* self.total_number
TotalAfter(op, total, limit, h) == total

\* ------------------------------------------------------------------ state
Limits == {None} \cup 0..MaxLimit
Batches == 0..MaxBatch
\* default_query_body = {'query': {"match_all": {}}}: no 'size' key
default_query_body_size == Absent
FailChoices == IF errors < MaxErrors THEN BOOLEAN ELSE {FALSE}

Init ==
    /\ arg_total_number \in Limits
    /\ arg_batch_size \in Batches
    /\ body_size = default_query_body_size
    /\ held \in 0..MaxHeld
    /\ phase = "args"
    /\ total_number = 0 /\ batch_size = 0
    /\ offset = 0 /\ inbtach_idx = 0 /\ current_batch_size = 0 /\ hits = <<>>
    /\ lastOp = "none" /\ lastResult = "none" /\ lastDoc = NoDoc
    /\ callReqs = <<>> /\ callFailed = FALSE
    /\ reqFrom = NoReq /\ reqGot = NoAnswer
    /\ countRequests = 0 /\ countSize = Absent /\ actual_total_number = 0
    /\ passStart = "fresh" /\ passDocs = <<>> /\ passReqs = <<>> /\ passWins = <<>>
    /\ passDone = FALSE /\ passErr = FALSE /\ passMut = FALSE
    /\ prevDocs = <<>> /\ prevReqs = <<>> /\ prevOk = FALSE
    /\ passCalls = 0 /\ mutations = 0 /\ errors = 0

\* ESCursor(es_conn, index, doc_type, body, total_number, batch_size)
Construct ==
    /\ phase = "args"
    /\ \E fail \in FailChoices :
        /\ countRequests' = countRequests + 1
        /\ countSize' = CountBodySize(body_size)
        /\ callReqs' = <<>>
        /\ callFailed' = fail
        /\ errors' = IF fail THEN errors + 1 ELSE errors
        /\ lastOp' = "init"
        /\ lastDoc' = NoDoc
        /\ IF fail
           THEN /\ phase' = "failed"
                /\ lastResult' = "BackendError"
                /\ UNCHANGED <<actual_total_number, total_number, batch_size>>
           ELSE /\ phase' = "live"
                /\ lastResult' = "cursor"
                /\ actual_total_number' = get_total_hits(held)
                /\ total_number' = EffectiveTotal(arg_total_number, actual_total_number')
                /\ batch_size' = CappedBatch(arg_batch_size, total_number')
        /\ offset' = 0 /\ inbtach_idx' = 0 /\ current_batch_size' = 0
    /\ body_size' = TemplateAfterCount(body_size)
    /\ UNCHANGED <<arg_total_number, arg_batch_size, held, hits, reqVars,
                   passVars, prevVars, passCalls, mutations>>

\* what both operations of the iteration protocol leave behind
Apply(op, o) ==
    /\ offset' = o.offset
    /\ hits' = o.hits
    /\ current_batch_size' = o.cbs
    /\ inbtach_idx' = o.idx
    /\ lastOp' = op
    /\ lastResult' = IF o.raised # "none" THEN o.raised
                     ELSE IF op = "iter" THEN "handle" ELSE "doc"
    /\ lastDoc' = o.doc
    /\ callReqs' = o.reqs
    /\ callFailed' = o.failed
    /\ errors' = IF o.failed THEN errors + 1 ELSE errors
    /\ total_number' = TotalAfter(op, total_number, arg_total_number, held)
    /\ UNCHANGED <<argVars, held, phase, batch_size, lifeVars, mutations>>

\* iter(cursor)
Iter ==
    /\ phase = "live"
    /\ passCalls' = 0
    /\ \E fail \in FailChoices :
        LET o == IterOutcome(offset, current_batch_size, hits, inbtach_idx,
                             total_number, batch_size, held, fail) IN
        /\ Apply("iter", o)
        /\ reqFrom' = IF o.reqs = <<>> THEN NoReq ELSE o.reqs[1][1]
        /\ reqGot' = IF o.wins = <<>> THEN NoAnswer ELSE Len(o.wins[1])
        /\ passStart' = "iter"
        /\ passDocs' = <<>>
        /\ passReqs' = o.reqs
        /\ passWins' = o.wins
        /\ passDone' = FALSE
        /\ passErr' = o.failed
        /\ passMut' = FALSE
        /\ prevOk' = (passStart = "iter" /\ passDone /\ ~passErr /\ ~passMut)
        /\ prevDocs' = IF prevOk' THEN passDocs ELSE <<>>
        /\ prevReqs' = IF prevOk' THEN passReqs ELSE <<>>

\* next(cursor)
NextItem ==
    /\ phase = "live"
    /\ passCalls < MaxPassCalls
    /\ passCalls' = passCalls + 1
    /\ \E fail \in FailChoices :
        LET o == NextOutcome(offset, current_batch_size, hits, inbtach_idx,
                             total_number, batch_size, held, fail) IN
        /\ Apply("next", o)
        /\ reqFrom' = IF o.reqs = <<>> THEN reqFrom ELSE o.reqs[1][1]
        /\ reqGot' = IF o.reqs = <<>> THEN reqGot
                     ELSE IF o.wins = <<>> THEN NoAnswer ELSE Len(o.wins[1])
        /\ IF passDone
           THEN UNCHANGED <<passDocs, passReqs, passWins, passDone>>
           ELSE /\ passDocs' = IF o.doc # NoDoc THEN Append(passDocs, o.doc) ELSE passDocs
                /\ passReqs' = passReqs \o o.reqs
                /\ passWins' = passWins \o o.wins
                /\ passDone' = (o.raised = "StopIteration")
        /\ passErr' = (passErr \/ o.failed)
        /\ UNCHANGED <<passStart, passMut, prevVars>>

\* documents are indexed or deleted behind the cursor's back
Mutate ==
    /\ phase = "live"
    /\ mutations < MaxMutations
    /\ \E h \in 0..MaxHeld : h # held /\ held' = h
    /\ mutations' = mutations + 1
    /\ passMut' = TRUE
    /\ prevOk' = FALSE /\ prevDocs' = <<>> /\ prevReqs' = <<>>
    /\ UNCHANGED <<argVars, cursorVars, callVars, reqVars, lifeVars, passStart, passDocs,
                   passReqs, passWins, passDone, passErr, passCalls, errors>>

Next == Construct \/ Iter \/ NextItem \/ Mutate

Spec == Init /\ [][Next]_vars

\* ----------------------------------------------------------------- claims
\* a step of next(cursor): the only action that adds to passCalls
IsNextStep == passCalls' = passCalls + 1

\* the backend has held the same documents since the count request
BackendUnchanged == mutations = 0

\* C1: in a pass begun by a restart, against a backend that answers every
\* request (from, size) with the documents it holds at from .. from+size-1,
\* next-item never returns more than effectiveTotal documents.
C1_PassWithinTotal ==
    (phase = "live" /\ passStart = "iter" /\ BackendUnchanged /\ ~passErr)
        => Len(passDocs) <= total_number

\* C3: once a next-item call has signalled end-of-sequence, every later
\* next-item call before the next restart signals end-of-sequence too,
\* whatever the backend holds by then (a failing backend set aside).
C3_ExhaustedIsTerminal ==
    [][(passDone /\ IsNextStep /\ ~callFailed') => lastResult' = "StopIteration"]_vars

\* C4: the restart operation completes by returning the iterator handle,
\* also when effectiveTotal = 0 (no backend request is involved then).
C4_RestartReturnsHandle ==
    (lastOp = "iter" /\ ~callFailed) => lastResult = "handle"

\* C5: a cursor with effectiveTotal = 0 never issues a windowed request and
\* never returns a document; its only backend request is the count.
C5_EmptyCursorNoFetch ==
    (phase = "live" /\ total_number = 0)
        => /\ callReqs = <<>> /\ passReqs = <<>>
           /\ lastResult # "doc" /\ lastDoc = NoDoc /\ passDocs = <<>>
           /\ ~callFailed
           /\ countRequests = 1

\* a next-item call on an empty cursor whose backend does hold documents
C5_Witness ==
    /\ phase = "live" /\ total_number = 0 /\ held > 0
    /\ passStart = "iter" /\ lastOp = "next" /\ lastResult = "StopIteration"

\* C6: effectiveTotal = min(N, T) when a limit N is given and T otherwise,
\* and batchSize = min(B, effectiveTotal).
C6_Construction ==
    phase = "live"
        => /\ total_number = IF arg_total_number = None THEN actual_total_number
                             ELSE Min(arg_total_number, actual_total_number)
           /\ batch_size = Min(arg_batch_size, total_number)

\* a construction where the limit caps the total and the total caps the batch
C6_Witness ==
    /\ phase = "live" /\ lastOp = "init"
    /\ arg_total_number # None /\ arg_total_number < actual_total_number
    /\ arg_batch_size > total_number /\ total_number > 0

\* the window in hand came back non-empty and short of batch_size
ShortWindow == phase = "live" /\ ~passDone
               /\ 0 < current_batch_size /\ current_batch_size < batch_size
ShortWindowOpen == ShortWindow /\ inbtach_idx < current_batch_size
ShortWindowConsumed == ShortWindow /\ inbtach_idx = current_batch_size

\* C2 as stated: once a short non-empty window has been yielded, the next
\* next-item call signals end-of-sequence without a further windowed request.
C2_ShortWindowEndsPass ==
    [][(ShortWindowConsumed /\ IsNextStep /\ ~callFailed')
          => (lastResult' = "StopIteration" /\ callReqs' = <<>>)]_vars

\* C2 as amended: the documents of a short non-empty window are yielded in
\* order without a request; the next next-item call then signals
\* end-of-sequence without a request only if offset plus the window's size
\* has reached effectiveTotal; otherwise it issues one request at that
\* offset and signals end-of-sequence only if the request returns nothing.
C2_ShortWindowThenRefetch ==
    [][/\ (ShortWindowOpen /\ IsNextStep)
            => /\ lastResult' = "doc" /\ lastDoc' = hits[inbtach_idx + 1]
               /\ callReqs' = <<>>
       /\ (ShortWindowConsumed /\ IsNextStep /\ ~callFailed')
            => IF offset + current_batch_size >= total_number
               THEN lastResult' = "StopIteration" /\ callReqs' = <<>>
               ELSE /\ callReqs' = << <<offset + current_batch_size, batch_size>> >>
                    /\ (lastResult' = "StopIteration") = (hits' = <<>>)
                    /\ lastResult' # "StopIteration"
                         => (lastResult' = "doc" /\ lastDoc' = hits'[1])]_vars

\* a document returned out of a window fetched right after a short one
C2_Witness ==
    /\ phase = "live" /\ ~passDone /\ ~passErr
    /\ lastOp = "next" /\ lastResult = "doc" /\ callReqs # <<>>
    /\ Len(passWins) >= 2
    /\ Len(passWins[Len(passWins) - 1]) > 0
    /\ Len(passWins[Len(passWins) - 1]) < batch_size

RECURSIVE Flatten(_)
Flatten(ws) == IF ws = <<>> THEN <<>> ELSE Head(ws) \o Flatten(Tail(ws))

CeilDiv(a, b) == (a + b - 1) \div b

IsPrefix(a, b) == Len(a) <= Len(b) /\ \A i \in 1..Len(a) : a[i] = b[i]

NoRepeat(q) == \A i, j \in 1..Len(q) : i # j => q[i] # q[j]

\* every window the backend returned in this restart-begun pass was full
FullWindowPass ==
    /\ phase = "live" /\ passStart = "iter" /\ ~passErr
    /\ batch_size >= 1
    /\ \A i \in 1..Len(passWins) : Len(passWins[i]) = batch_size

TwoCompletePasses ==
    /\ phase = "live" /\ prevOk
    /\ passStart = "iter" /\ passDone /\ ~passErr /\ ~passMut

\* C8: against an unchanged backend, a second restart after a completed
\* pass returns the same documents and issues the same windowed requests.
C8_RestartReproduces ==
    TwoCompletePasses => (passDocs = prevDocs /\ passReqs = prevReqs)

\* two completed passes of more than one window
C8_Witness ==
    TwoCompletePasses /\ Len(passReqs) >= 2 /\ Len(passDocs) >= 2

\* C9: a next-item call issues at most one windowed request, and a pass
\* without backend errors has signalled end-of-sequence before its
\* (effectiveTotal + batchSize)-th next-item call: every earlier call
\* returned a document, and there are at most effectiveTotal + batchSize - 1.
C9_PassTerminates ==
    phase = "live"
        => /\ Len(callReqs) <= 1
           /\ Len(passDocs) <= Max(0, total_number + batch_size - 1)
           /\ (~passDone /\ ~passErr)
                => (passCalls = Len(passDocs)
                    /\ passCalls <= Max(0, total_number + batch_size - 1))

\* a pass of several requests that returned documents and then ended on an
\* empty window, below effectiveTotal
C9_Witness ==
    /\ phase = "live" /\ passStart = "iter" /\ passDone /\ ~passErr
    /\ lastOp = "next" /\ lastResult = "StopIteration"
    /\ Len(passReqs) >= 2 /\ Len(passDocs) >= 1
    /\ offset < total_number
    /\ passCalls = Len(passDocs) + 1

\* C10: a backend error comes out of the operation that issued the failing
\* request, after exactly one request: the constructor for the count, the
\* restart or next-item call for a windowed search; no document is returned
\* and no end-of-sequence is signalled in its place.
C10_ErrorPropagates ==
    /\ callFailed = (lastResult = "BackendError")
    /\ callFailed
        => /\ lastDoc = NoDoc
           /\ IF lastOp = "init"
              THEN phase = "failed" /\ countRequests = 1 /\ callReqs = <<>>
              ELSE lastOp \in {"iter", "next"} /\ Len(callReqs) = 1
                   /\ callReqs[1] = <<offset, batch_size>>

\* a next-item call that failed on its windowed search
C10_Witness ==
    /\ lastOp = "next" /\ callFailed /\ lastResult = "BackendError"
    /\ offset > 0

\* a step of iter(cursor) (or one that leaves the state after it unchanged)
IsIterStep == lastOp' = "iter" /\ mutations' = mutations

\* the step is a restart or next-item call that issued a windowed request
IssuesRequest == (IsIterStep \/ IsNextStep) /\ callReqs' # <<>>

\* C11 as stated: every windowed request carries from = offset and
\* size = batchSize, and a request that follows another one (which was
\* answered) since the last restart has from = the earlier from plus the
\* number of documents the earlier request returned, strictly greater than
\* the earlier from (already for batchSize >= 1).
C11_FromStrictlyIncreasing ==
    [][IssuesRequest
          => /\ callReqs' = << <<offset', batch_size>> >>
             /\ (IsNextStep /\ reqFrom # NoReq /\ reqGot # NoAnswer
                            /\ batch_size >= 1)
                  => /\ offset' = reqFrom + reqGot
                     /\ offset' > reqFrom]_vars

\* C11 as amended: every windowed request carries from = offset and
\* size = batchSize; a request that follows another one since the last
\* restart has from = the earlier from plus current_batch_size as the
\* earlier request left it (the number of documents it returned if it was
\* answered, the size of the window before it if it failed), so it is never
\* smaller than the earlier from and is strictly greater only when that
\* number is at least one.
C11_FromAdvancesByWindow ==
    [][IssuesRequest
          => /\ callReqs' = << <<offset', batch_size>> >>
             /\ reqFrom' = offset'
             /\ IsIterStep => offset' = 0
             /\ (IsNextStep /\ reqFrom # NoReq)
                  => /\ offset = reqFrom
                     /\ reqGot # NoAnswer => current_batch_size = reqGot
                     /\ offset' = reqFrom + current_batch_size
                     /\ offset' >= reqFrom
                     /\ (offset' > reqFrom) = (current_batch_size >= 1)]_vars

\* a third request of a pass, after two answered ones of different sizes
C11_Witness ==
    /\ phase = "live" /\ passStart = "iter" /\ ~passDone /\ ~passErr
    /\ lastOp = "next" /\ callReqs # <<>>
    /\ Len(passReqs) = 3
    /\ Len(passWins[1]) # Len(passWins[2])
    /\ reqFrom = Len(passWins[1]) + Len(passWins[2])

\* C12: in every state of the cursor, 0 <= windowCursor <=
\* len(currentWindow) <= batchSize (the backend never returns more than
\* the requested size); the window's length is current_batch_size, and the
\* documents in hand, hits, are no more than batchSize either.
C12_WindowBounds ==
    phase = "live"
        => /\ 0 <= inbtach_idx
           /\ inbtach_idx <= current_batch_size
           /\ current_batch_size <= batch_size
           /\ current_batch_size <= Len(hits)
           /\ Len(hits) <= batch_size

\* a window in the middle of being served, and a consumed one at end-of-sequence
C12_Witness ==
    /\ phase = "live" /\ lastOp = "next" /\ lastResult = "doc"
    /\ 0 < inbtach_idx /\ inbtach_idx < current_batch_size
    /\ offset > 0

\* C13: offset never decreases between restarts: every step leaves offset at
\* least as large as it was, except a restart, which sets it to 0.
C13_OffsetMonotone ==
    [][/\ IsNextStep => offset' >= offset
       /\ offset' < offset => (IsIterStep /\ offset' = 0)]_vars

\* a next-item call that advanced the offset a second time in its pass
C13_Witness ==
    /\ phase = "live" /\ passStart = "iter" /\ lastOp = "next"
    /\ callReqs # <<>> /\ Len(passReqs) >= 3 /\ offset >= 2

\* every windowed request of the last call asked for at least one document
\* at an offset below total_number
RequestsNonEmpty ==
    \A i \in 1..Len(callReqs) : callReqs[i][2] >= 1 /\ callReqs[i][1] < total_number

\* C14 as stated: for every configured batch size, a cursor with
\* effectiveTotal >= 1 has batchSize >= 1, and every windowed request has
\* size >= 1 and from < effectiveTotal.
C14_NoEmptyWindowRequested ==
    (phase = "live" /\ total_number >= 1)
        => (batch_size >= 1 /\ RequestsNonEmpty)

\* C14 as amended: for every configured batch size of at least 1, a cursor
\* with effectiveTotal >= 1 has batchSize >= 1 and every windowed request
\* has size >= 1; for every configured batch size, every windowed request
\* has from < effectiveTotal.
C14_NoEmptyWindowForPositiveBatch ==
    phase = "live"
        => /\ (total_number >= 1 /\ arg_batch_size >= 1)
                => (batch_size >= 1 /\ RequestsNonEmpty)
           /\ \A i \in 1..Len(callReqs) : callReqs[i][1] < total_number

\* the last window of a pass requested in full at the last offset below the total
C14_Witness ==
    /\ phase = "live" /\ arg_batch_size >= 1 /\ lastOp = "next"
    /\ callReqs # <<>> /\ callReqs[1][1] = total_number - 1
    /\ callReqs[1][2] = 2

\* C15: after construction no operation changes effectiveTotal, batchSize or
\* the stored query body, and none issues another count request: a live
\* cursor has issued exactly one count request, whatever restarts and
\* index mutations follow.
C15_FixedAfterConstruction ==
    /\ [](phase = "live" => countRequests = 1)
    /\ [][phase = "live"
            => /\ total_number' = total_number
               /\ batch_size' = batch_size
               /\ body_size' = body_size
               /\ countRequests' = countRequests
               /\ countSize' = countSize]_vars

\* a restart made after the index changed size behind the cursor
C15_Witness ==
    /\ phase = "live" /\ lastOp = "iter" /\ passStart = "iter"
    /\ mutations >= 1 /\ held # actual_total_number
    /\ arg_total_number = None /\ total_number = actual_total_number
    /\ countRequests = 1

\* the spec's currentWindow: the current_batch_size documents of hits that
\* the cursor still regards as its window (empty right after the reset of
\* a restart, whatever hits still holds)
currentWindow == SubSeq(hits, 1, current_batch_size)

\* C16: fast path: a next-item call made while windowCursor <
\* len(currentWindow) returns currentWindow[windowCursor], increases
\* windowCursor by exactly one, issues no backend request, and leaves
\* offset, currentWindow, batchSize and effectiveTotal unchanged.
C16_FastPath ==
    [][(IsNextStep /\ inbtach_idx < Len(currentWindow))
        => /\ lastResult' = "doc"
           /\ lastDoc' = currentWindow[inbtach_idx + 1]
           /\ inbtach_idx' = inbtach_idx + 1
           /\ callReqs' = <<>> /\ ~callFailed'
           /\ countRequests' = countRequests
           /\ offset' = offset
           /\ currentWindow' = currentWindow
           /\ hits' = hits
           /\ batch_size' = batch_size
           /\ total_number' = total_number]_vars

\* the second document of a window that is not the first of its pass
C16_Witness ==
    /\ phase = "live" /\ lastOp = "next" /\ lastResult = "doc"
    /\ callReqs = <<>> /\ inbtach_idx = 2 /\ offset >= 2
    /\ lastDoc = offset + 1

\* C17: restart from any state of a cursor with effectiveTotal >= 1 issues
\* exactly one windowed request, from = 0 and size = batchSize, and ends
\* with offset = 0, windowCursor = 0 and currentWindow equal to that
\* request's result (empty if the request failed); the first next-item
\* call after the restart returns, when that window is not empty, its
\* first document without a request, and otherwise only a document of a
\* window fetched by that very call, never one of the previous pass.
C17_RestartFromAnyState ==
    [][/\ (IsIterStep /\ total_number >= 1)
            => /\ callReqs' = << <<0, batch_size>> >>
               /\ offset' = 0
               /\ inbtach_idx' = 0
               /\ currentWindow' = IF callFailed' THEN <<>>
                                   ELSE Search(0, batch_size, held)
               /\ ~callFailed' => hits' = currentWindow'
       /\ (IsNextStep /\ lastOp = "iter" /\ total_number >= 1)
            => IF currentWindow # <<>>
               THEN /\ lastResult' = "doc"
                    /\ lastDoc' = currentWindow[1]
                    /\ callReqs' = <<>>
               ELSE lastResult' = "doc"
                        => /\ callReqs' = << <<0, batch_size>> >>
                           /\ lastDoc' = Search(0, batch_size, held)[1]
                           /\ lastDoc' = currentWindow'[1]]_vars

\* the first document served after a restart of an exhausted cursor whose
\* last window of the previous pass began at a later offset
C17_Witness ==
    /\ phase = "live" /\ lastOp = "next" /\ lastResult = "doc"
    /\ passStart = "iter" /\ passDocs = <<0>> /\ passCalls = 1
    /\ prevOk /\ Len(prevDocs) >= 3 /\ Len(prevReqs) >= 2
    /\ inbtach_idx = 1 /\ offset = 0 /\ lastDoc = 0

\* ------------------------------------------- construction over any template
\* the largest 'size' a caller's body template carries
MaxBodySize == 2

\* body: a template without a 'size' key, or with its own
BodySizes == {Absent} \cup 0..MaxBodySize

\* the arguments of the constructor, the body template among them
InitCount ==
    /\ arg_total_number \in Limits
    /\ arg_batch_size \in Batches
    /\ body_size \in BodySizes
    /\ held \in 0..MaxHeld
    /\ phase = "args"
    /\ total_number = 0 /\ batch_size = 0
    /\ offset = 0 /\ inbtach_idx = 0 /\ current_batch_size = 0 /\ hits = <<>>
    /\ lastOp = "none" /\ lastResult = "none" /\ lastDoc = NoDoc
    /\ callReqs = <<>> /\ callFailed = FALSE
    /\ reqFrom = NoReq /\ reqGot = NoAnswer
    /\ countRequests = 0 /\ countSize = Absent /\ actual_total_number = 0
    /\ passStart = "fresh" /\ passDocs = <<>> /\ passReqs = <<>> /\ passWins = <<>>
    /\ passDone = FALSE /\ passErr = FALSE /\ passMut = FALSE
    /\ prevDocs = <<>> /\ prevReqs = <<>> /\ prevOk = FALSE
    /\ passCalls = 0 /\ mutations = 0 /\ errors = 0

NextCount == Construct

CountSpec == InitCount /\ [][NextCount]_vars

\* C18 as stated: the count request of construction always carries size
\* zero, for every body template, one with its own size field included,
\* and the caller's template is left without any added or changed size.
C18_CountSizeAlwaysZero ==
    [][phase = "args" => (countSize' = 0 /\ body_size' = body_size)]_vars

\* C18 as amended: the count request of construction carries size zero
\* when the body template has no size field and the template's own size
\* when it has one; it is the one count request, and the caller's
\* template is left without any added or changed size field.
C18_CountSizeZeroUnlessGiven ==
    [][phase = "args"
        => /\ countRequests' = 1
           /\ countSize' = (IF body_size = Absent THEN 0 ELSE body_size)
           /\ body_size' = body_size]_vars

\* a cursor constructed over a template that carries a size of its own
C18_Witness ==
    /\ phase = "live" /\ countRequests = 1
    /\ body_size # Absent /\ body_size >= 1 /\ countSize = body_size

\* C19: in every state of a pass in which end-of-sequence has not yet been
\* signalled, the number of documents returned by next-item since the last
\* restart equals offset + windowCursor; and at the first end-of-sequence
\* signal of the pass, offset equals the number of documents returned in
\* that pass.
C19_Accounting ==
    /\ []((phase = "live" /\ ~passDone)
            => Len(passDocs) = offset + inbtach_idx)
    /\ [][(IsNextStep /\ ~passDone /\ passDone')
            => offset' = Len(passDocs')]_vars

\* C20: a windowed fetch of next-item that fails with a backend error
\* leaves offset, currentWindow and windowCursor exactly as they were
\* before the failing call, so that the request re-issued by the next
\* call uses the same from offset as the failed one.
C20_FailedFetchLeavesState ==
    [][/\ (IsNextStep /\ callFailed')
            => /\ offset' = offset
               /\ hits' = hits
               /\ current_batch_size' = current_batch_size
               /\ inbtach_idx' = inbtach_idx
       /\ (IsNextStep /\ callFailed /\ lastOp = "next" /\ callReqs' # <<>>)
            => callReqs'[1][1] = callReqs[1][1]]_vars

====
